---- MODULE Spec2Model ----
(***************************************************************************)
(* Model of update_vpn_clients.py: selection of a NordVPN server per       *)
(* configured tunnel, reconciliation of the OPNsense configuration tree,   *)
(* conditional write-back and service restarts.                            *)
(*                                                                         *)
(* Python values are modelled as strings: a text is itself, Python's None  *)
(* is the marker None, a JSON value that is not a string (a number) is the *)
(* marker NotStr, and a child element or attribute that the node does not  *)
(* have is the marker Absent.                                              *)
(***************************************************************************)
EXTENDS Integers, Sequences, FiniteSets, TLC

\* ------------------------------------------------------------------------
\* Bounds of the model
\* ------------------------------------------------------------------------
\* longest tunnel list of the generalised configurations
MaxDefs == 3

\* ------------------------------------------------------------------------
\* Program constants
\* ------------------------------------------------------------------------
config_path == "/conf/config.xml"
config_backup_path == "/conf/config.xml.bak"
\* "limit": 3 of the request: the service returns at most that many servers
Limit == 3

None == "<None>"
NotStr == "<not-a-string>"
Absent == "<absent>"

\* ------------------------------------------------------------------------
\* The recommendation service's answers
\* ------------------------------------------------------------------------
\* values of a server's "station" (server.get("station") is None when the
\* key is missing)
Stations == {"10.0.0.1", "10.0.0.2"}
StationValues == Stations \cup {"", None, NotStr}

\* "technologies" arrays: each entry is a dict with an identifier and a
\* metadata array of {name, value} pairs, or is not a dict at all
Meta(n, v) == [name |-> n, value |-> v]
Tech(id, md) == [isdict |-> TRUE, identifier |-> id, metadata |-> md]
BadTech == [isdict |-> FALSE, identifier |-> "", metadata |-> <<>>]
TechnologiesValues ==
    { <<>>,
      << Tech("wireguard_udp", << Meta("public_key", "KEY1") >>) >>,
      << Tech("openvpn_udp", << Meta("public_key", "KEY1") >>),
         Tech("wireguard_udp", << Meta("load", "7"), Meta("public_key", "KEY2") >>) >>,
      << Tech("wireguard_udp", << Meta("load", "7") >>),
         Tech("wireguard_udp", << Meta("public_key", "KEY1") >>) >>,
      << BadTech >> }

\* a server of the answer: a dict, or an array element that is not a dict
Server(st, techs) == [isdict |-> TRUE, station |-> st, technologies |-> techs]
BadServer == [isdict |-> FALSE, station |-> None, technologies |-> <<>>]

\* an answer: the request or json.loads raised, or a parsed array
FailedResponse == [failed |-> TRUE, body |-> <<>>]
OkResponse(b) == [failed |-> FALSE, body |-> b]

SeqsUpTo(S, n) == UNION { [1..k -> S] : k \in 0..n }

\* ------------------------------------------------------------------------
\* get_optimal_server
\* ------------------------------------------------------------------------
Raise == "<raise>"

\* the inner loop over tech.get("metadata", [])
RECURSIVE ScanMetadata(_)
ScanMetadata(metadata) ==
    IF metadata = <<>> THEN ""
    ELSE IF Head(metadata).name = "public_key" THEN Head(metadata).value
    ELSE ScanMetadata(Tail(metadata))

\* the loop over server.get("technologies", []): the first entry whose
\* identifier is wireguard_udp decides; Raise when tech.get fails
RECURSIVE ExtractPublicKey(_)
ExtractPublicKey(technologies) ==
    IF technologies = <<>> THEN ""
    ELSE LET tech == Head(technologies) IN
         IF ~tech.isdict THEN Raise
         ELSE IF tech.identifier = "wireguard_udp" THEN ScanMetadata(tech.metadata)
         ELSE ExtractPublicKey(Tail(technologies))

NoServer == [isNone |-> TRUE, ip |-> None, public_key |-> ""]
ServerInfo(ip, key) == [isNone |-> FALSE, ip |-> ip, public_key |-> key]

\* the exclusion check of line 90
ExclusionCheckAlways(server_ip, exclude_ip) == TRUE
ExclusionCheck(server_ip, exclude_ip) == server_ip # exclude_ip

\* the descriptor built from the selected server (lines 92-113)
BuildServerInfo(server, technology) ==
    IF technology = "wireguard_udp"
    THEN LET public_key == ExtractPublicKey(server.technologies) IN
         IF public_key = Raise THEN NoServer
         ELSE ServerInfo(server.station, public_key)
    ELSE ServerInfo(server.station, "")

\* the loop over parsed_response; an exception leaves selected_server None
RECURSIVE ScanNoBreak(_, _, _)
ScanNoBreak(body, technology, exclude_ip) ==
    IF body = <<>> THEN NoServer
    ELSE LET server == Head(body)
             later == ScanNoBreak(Tail(body), technology, exclude_ip) IN
         IF ~server.isdict THEN NoServer
         ELSE IF ~later.isNone THEN later
         ELSE IF server.station # exclude_ip THEN BuildServerInfo(server, technology)
         ELSE NoServer
RECURSIVE ScanServers(_, _, _)
ScanServers(body, technology, exclude_ip) ==
    IF body = <<>> THEN NoServer
    ELSE LET server == Head(body) IN
         IF ~server.isdict THEN NoServer
         ELSE IF ExclusionCheck(server.station, exclude_ip)
              THEN BuildServerInfo(server, technology)
              ELSE ScanServers(Tail(body), technology, exclude_ip)

get_optimal_server(response, technology, exclude_ip) ==
    IF response.failed THEN NoServer
    ELSE ScanServers(response.body, technology, exclude_ip)

\* whether the try block of get_optimal_server raised
RECURSIVE ScanRaises(_, _, _)
ScanRaises(body, technology, exclude_ip) ==
    IF body = <<>> THEN FALSE
    ELSE LET server == Head(body) IN
         IF ~server.isdict THEN TRUE
         ELSE IF ExclusionCheck(server.station, exclude_ip)
              THEN technology = "wireguard_udp"
                   /\ ExtractPublicKey(server.technologies) = Raise
              ELSE ScanRaises(Tail(body), technology, exclude_ip)

QueryFailed(response, technology, exclude_ip) ==
    response.failed \/ ScanRaises(response.body, technology, exclude_ip)

\* ------------------------------------------------------------------------
\* Tunnel definitions
\* ------------------------------------------------------------------------
Item(t, p, tech) ==
    [target |-> t, port |-> p, country |-> "81", group |-> "legacy_standard",
     technology |-> tech]

\* the lists as shipped
ShippedOpenvpnList ==
    << Item("NordVPN Main", "1194", "openvpn_udp"),
       Item("NordVPN Fallback", "443", "openvpn_tcp") >>
ShippedWireguardList == << Item("nordlynx1", "51820", "") >>

\* the lists are settings the operator edits: lists of n entries
GenOpenvpnList(n) ==
    [k \in 1..n |-> Item("ovpn" \o ToString(k), "1194", "openvpn_udp")]
GenWireguardList(n) ==
    [k \in 1..n |-> Item("wg" \o ToString(k), "51820", "")]

\* ------------------------------------------------------------------------
\* The configuration document
\* ------------------------------------------------------------------------
\* ovpn:  the openvpn-client nodes under ./openvpn, in document order
\* wg:    the client nodes under ./OPNsense/wireguard/client/clients
\* other: the client nodes anywhere else in the document
EmptyTree == [ovpn |-> <<>>, wg |-> <<>>, other |-> <<>>]

OvpnNode(d, a, p, v) ==
    [description |-> d, server_addr |-> a, server_port |-> p, vpnid |-> v]
WgNode(n, a, k, u) ==
    [name |-> n, serveraddress |-> a, pubkey |-> k, uuid |-> u]

OldAddr == "192.0.2.1"
OldPort == "1"
OldKey == "OLDKEY"

\* the nodes a document holds for the k-th openvpn definition
OvpnShapes == {"absent", "full", "novpnid", "bare", "twice"}
OvpnNodes(item, k, shape) ==
    CASE shape = "absent"  -> <<>>
      [] shape = "full"    -> << OvpnNode(item.target, OldAddr, OldPort, ToString(k)) >>
      [] shape = "novpnid" -> << OvpnNode(item.target, OldAddr, OldPort, Absent) >>
      [] shape = "bare"    -> << OvpnNode(item.target, Absent, Absent, ToString(k)) >>
      [] shape = "twice"   -> << OvpnNode(item.target, OldAddr, OldPort, ToString(k)),
                                 OvpnNode(item.target, OldAddr, OldPort, "9") >>

\* the nodes a document holds for the k-th wireguard definition, as
\* <<nodes at the direct path, client nodes elsewhere>>
WgShapes == {"absent", "full", "nouuid", "bare", "elsewhere", "both"}
WgNodes(item, k, shape) ==
    LET u == "uuid-" \o ToString(k) IN
    CASE shape = "absent"    -> << <<>>, <<>> >>
      [] shape = "full"      -> << << WgNode(item.target, OldAddr, OldKey, u) >>, <<>> >>
      [] shape = "nouuid"    -> << << WgNode(item.target, OldAddr, OldKey, Absent) >>, <<>> >>
      [] shape = "bare"      -> << << WgNode(item.target, Absent, Absent, u) >>, <<>> >>
      [] shape = "elsewhere" -> << <<>>,
                                   << WgNode(Absent, OldAddr, OldKey, "uuid-x"),
                                      WgNode(item.target, OldAddr, OldKey, u) >> >>
      [] shape = "both"      -> << << WgNode(item.target, OldAddr, OldKey, u) >>,
                                   << WgNode(item.target, OldAddr, OldKey, "uuid-y") >> >>

RECURSIVE OvpnPart(_, _, _)
OvpnPart(list, shapes, k) ==
    IF k > Len(list) THEN <<>>
    ELSE OvpnNodes(list[k], k, shapes[k]) \o OvpnPart(list, shapes, k + 1)
RECURSIVE WgPart(_, _, _, _)
WgPart(list, shapes, k, part) ==
    IF k > Len(list) THEN <<>>
    ELSE WgNodes(list[k], k, shapes[k])[part] \o WgPart(list, shapes, k + 1, part)

Document(olist, oshapes, wlist, wshapes) ==
    [ovpn |-> OvpnPart(olist, oshapes, 1),
     wg |-> WgPart(wlist, wshapes, 1, 1),
     other |-> WgPart(wlist, wshapes, 1, 2)]

\* files: a missing file, or a file holding a document; intact is FALSE for
\* a file that a failed write left truncated
NoFile == [exists |-> FALSE, doc |-> EmptyTree, intact |-> TRUE]
File(d) == [exists |-> TRUE, doc |-> d, intact |-> TRUE]
TruncatedFile == [exists |-> TRUE, doc |-> EmptyTree, intact |-> FALSE]

\* ------------------------------------------------------------------------
\* State
\* ------------------------------------------------------------------------
VARIABLES
    pc,             \* position of run()
    argtype,        \* args.type
    openvpn_list,   \* module-level settings
    wireguard_list,
    fs,             \* the files at config_path and config_backup_path
    fs0,            \* the files as the run found them
    tree,           \* the parsed tree (root)
    i,              \* position of the reconciler's loop over its list
    entry,          \* the node located for the current item
    last_server,    \* the reconciler's last_server
    vpn_id_list,    \* the reconciler's vpn_id_list
    openvpn_ids,    \* run()'s openvpn_ids
    wireguard_ids,  \* run()'s wireguard_ids
    status,         \* <<>> while running, then <<exit status>>
    trace,          \* what the run did to the outside, in order
    sel_in,         \* an isolated call of get_optimal_server: its arguments
    sel_out         \* and its result (<<>> before the call)

runvars == << pc, fs0, argtype, openvpn_list, wireguard_list, fs, tree, i, entry,
              last_server, vpn_id_list, openvpn_ids, wireguard_ids, status, trace >>
selvars == << sel_in, sel_out >>
vars == << pc, fs0, argtype, openvpn_list, wireguard_list, fs, tree, i, entry,
           last_server, vpn_id_list, openvpn_ids, wireguard_ids, status, trace,
           sel_in, sel_out >>

NoEntry == [part |-> "none", idx |-> 0]
Entry(p, j) == [part |-> p, idx |-> j]

\* an event of the trace
Event(e, t, k, a, r, ip, key) ==
    [ev |-> e, tech |-> t, idx |-> k, arg |-> a, res |-> r, ip |-> ip, key |-> key]

\* ------------------------------------------------------------------------
\* Reading and writing the document
\* ------------------------------------------------------------------------
\* ElementTree.parse: the text of an empty element is None
ParseText(t) == IF t = "" THEN None ELSE t
\* tree.write: a text of None is written as an empty element; a text that
\* is not a string cannot be serialized
WriteText(t) == IF t = None THEN "" ELSE t

ParseOvpn(n) ==
    [n EXCEPT !.description = ParseText(@), !.server_addr = ParseText(@),
              !.server_port = ParseText(@), !.vpnid = ParseText(@)]
\* uuid is an attribute: always a string when present
ParseWg(n) ==
    [n EXCEPT !.name = ParseText(@), !.serveraddress = ParseText(@),
              !.pubkey = ParseText(@)]
Parse(doc) ==
    [ovpn |-> [j \in 1..Len(doc.ovpn) |-> ParseOvpn(doc.ovpn[j])],
     wg |-> [j \in 1..Len(doc.wg) |-> ParseWg(doc.wg[j])],
     other |-> [j \in 1..Len(doc.other) |-> ParseWg(doc.other[j])]]

WriteOvpn(n) ==
    [n EXCEPT !.description = WriteText(@), !.server_addr = WriteText(@),
              !.server_port = WriteText(@), !.vpnid = WriteText(@)]
WriteWg(n) ==
    [n EXCEPT !.name = WriteText(@), !.serveraddress = WriteText(@),
              !.pubkey = WriteText(@)]
Serialize(t) ==
    [ovpn |-> [j \in 1..Len(t.ovpn) |-> WriteOvpn(t.ovpn[j])],
     wg |-> [j \in 1..Len(t.wg) |-> WriteWg(t.wg[j])],
     other |-> [j \in 1..Len(t.other) |-> WriteWg(t.other[j])]]

Serializable(t) ==
    /\ \A j \in 1..Len(t.ovpn) :
          NotStr \notin {t.ovpn[j].description, t.ovpn[j].server_addr,
                         t.ovpn[j].server_port, t.ovpn[j].vpnid}
    /\ \A p \in {"wg", "other"} : \A j \in 1..Len(t[p]) :
          NotStr \notin {t[p][j].name, t[p][j].serveraddress, t[p][j].pubkey}

\* ------------------------------------------------------------------------
\* Locating nodes
\* ------------------------------------------------------------------------
\* the first position of seq whose field has the value, 0 when there is none
RECURSIVE FirstFrom(_, _, _, _)
FirstFrom(seq, field, value, j) ==
    IF j > Len(seq) THEN 0
    ELSE IF seq[j][field] = value THEN j
    ELSE FirstFrom(seq, field, value, j + 1)
First(seq, field, value) == FirstFrom(seq, field, value, 1)

\* root.find("./openvpn/openvpn-client/[description='...']")
FindOpenvpnAny(root, target_desc) ==
    IF root.ovpn = <<>> THEN NoEntry ELSE Entry("ovpn", 1)
FindOpenvpn(root, target_desc) ==
    LET j == First(root.ovpn, "description", target_desc) IN
    IF j = 0 THEN NoEntry ELSE Entry("ovpn", j)

\* root.find("./OPNsense/wireguard/client/clients/client/[name='...']")
FindWireguardDirect(root, target_desc) ==
    LET j == First(root.wg, "name", target_desc) IN
    IF j = 0 THEN NoEntry ELSE Entry("wg", j)

\* the scan of root.findall(".//client"): reached only when no node at the
\* direct path matches, so the place of those nodes in the order is immaterial
FindWireguardScan(root, target_desc) ==
    LET j == First(root.wg, "name", target_desc)
        k == First(root.other, "name", target_desc) IN
    IF j # 0 THEN Entry("wg", j)
    ELSE IF k # 0 THEN Entry("other", k)
    ELSE NoEntry

FindWireguardElsewhereFirst(root, target_desc) ==
    LET k == First(root.other, "name", target_desc) IN
    IF k # 0 THEN Entry("other", k) ELSE FindWireguardDirect(root, target_desc)
FindWireguard(root, target_desc) ==
    LET direct == FindWireguardDirect(root, target_desc) IN
    IF direct # NoEntry THEN direct ELSE FindWireguardScan(root, target_desc)

Node(root, e) == root[e.part][e.idx]

\* elem = entry.find(field); if elem is not None: elem.text = value
SetText(root, e, field, value) ==
    IF Node(root, e)[field] = Absent THEN root
    ELSE [root EXCEPT ![e.part][e.idx][field] = value]

\* ------------------------------------------------------------------------
\* The reconcilers' updates of a located node
\* ------------------------------------------------------------------------
\* "if server_info is not None" (lines 152, 225)
GotServerAlways(server_info) == TRUE
GotServer(server_info) == ~server_info.isNone

\* last_ip = None if last_server is None else last_server.get("ip")
LastIp(last) == IF last.isNone THEN None ELSE last.ip

\* lines 157-164
ApplyOpenvpnFirstNode(root, e, item, server_info) ==
    SetText(SetText(root, Entry("ovpn", 1), "server_addr", server_info.ip),
            Entry("ovpn", 1), "server_port", item.port)
ApplyOpenvpn(root, e, item, server_info) ==
    SetText(SetText(root, e, "server_addr", server_info.ip),
            e, "server_port", item.port)

\* lines 167-169
CollectOpenvpn(root, e, ids) ==
    IF Node(root, e).vpnid # Absent THEN Append(ids, Node(root, e).vpnid) ELSE ids

\* Python's truth value of a text
Truthy(v) == v \notin {"", None}

\* lines 233-243
ApplyWireguardAnyKey(root, e, server_info) ==
    SetText(SetText(root, e, "serveraddress", server_info.ip),
            e, "pubkey", server_info.public_key)
ApplyWireguard(root, e, server_info) ==
    LET r1 == SetText(root, e, "serveraddress", server_info.ip) IN
    IF Truthy(server_info.public_key)
    THEN SetText(r1, e, "pubkey", server_info.public_key)
    ELSE r1

\* lines 247-251
CollectWireguardAlways(root, e, ids) == Append(ids, Node(root, e).uuid)
CollectWireguard(root, e, ids) ==
    IF Node(root, e).uuid # Absent THEN Append(ids, Node(root, e).uuid) ELSE ids

\* the outcome of a query as the trace records it
Outcome(response, technology, exclude_ip) ==
    IF QueryFailed(response, technology, exclude_ip) THEN "error"
    ELSE IF get_optimal_server(response, technology, exclude_ip).isNone THEN "none"
    ELSE "ok"

\* the answers the runs are checked against
RunStations == Stations \cup {None, NotStr}
OpenvpnResponses ==
    {FailedResponse} \cup
    { OkResponse(b) :
        b \in SeqsUpTo({Server(st, <<>>) : st \in RunStations} \cup {BadServer}, Limit) }
WireguardResponses ==
    {FailedResponse} \cup
    { OkResponse(b) :
        b \in SeqsUpTo({Server(st, t) : st \in RunStations,
                          t \in { <<>>, << Tech("wireguard_udp",
                                               << Meta("public_key", "KEY1") >>) >> }}
                        \cup {BadServer}, Limit) }

\* ------------------------------------------------------------------------
\* run()
\* ------------------------------------------------------------------------
EnterOpenvpn ==
    /\ pc' = "openvpn"
    /\ i' = 1
    /\ last_server' = NoServer
    /\ vpn_id_list' = <<>>
    /\ entry' = NoEntry

EnterWireguardSharedLast ==
    /\ pc' = "wireguard"
    /\ i' = 1
    /\ last_server' = last_server
    /\ vpn_id_list' = <<>>
    /\ entry' = NoEntry

EnterWireguard ==
    /\ pc' = "wireguard"
    /\ i' = 1
    /\ last_server' = NoServer
    /\ vpn_id_list' = <<>>
    /\ entry' = NoEntry

\* os.path.exists (line 280)
ExistsAlways(files, path) == TRUE
Exists(files, path) == files[path].exists

\* lines 280-282: the live document exists and is copied to the backup path
BackupConfig ==
    /\ pc = "start"
    /\ Exists(fs, config_path)
    /\ fs' = [fs EXCEPT ![config_backup_path] = fs[config_path]]
    /\ trace' = Append(trace, Event("copy", "", 0, config_path, config_backup_path, "", ""))
    /\ pc' = "load"
    /\ UNCHANGED << fs0, argtype, openvpn_list, wireguard_list, tree, i, entry, last_server,
                    vpn_id_list, openvpn_ids, wireguard_ids, status, selvars >>

\* lines 283-285
ConfigMissing ==
    /\ pc = "start"
    /\ ~Exists(fs, config_path)
    /\ pc' = "done"
    /\ status' = << 1 >>
    /\ UNCHANGED << fs0, argtype, openvpn_list, wireguard_list, fs, tree, i, entry,
                    last_server, vpn_id_list, openvpn_ids, wireguard_ids, trace,
                    selvars >>

\* the path run() parses the tree from (line 288)
LoadPathLive == config_path
LoadPath == config_backup_path

\* lines 288-289 and 318-327: parse, then enter the first reconciler in scope
\* (the --debug-xml dump of lines 292-316 only prints)
LoadConfig ==
    /\ pc = "load"
    /\ tree' = Parse(fs[LoadPath].doc)
    /\ trace' = Append(trace, Event("parse", "", 0, LoadPath, "", "", ""))
    /\ openvpn_ids' = <<>>
    /\ wireguard_ids' = <<>>
    /\ IF argtype \in {"openvpn", "all"} THEN EnterOpenvpn ELSE EnterWireguard
    /\ UNCHANGED << fs0, argtype, openvpn_list, wireguard_list, fs, status, selvars >>

\* lines 130-140: locate the node of the next item, skip the item on a miss
LocateOpenvpn ==
    /\ pc = "openvpn"
    /\ i <= Len(openvpn_list)
    /\ LET e == FindOpenvpn(tree, openvpn_list[i].target) IN
       /\ trace' = Append(trace, Event("locate", "openvpn", i, "direct",
                                       IF e = NoEntry THEN "miss" ELSE "found", "", ""))
       /\ IF e = NoEntry
          THEN /\ i' = i + 1
               /\ UNCHANGED << pc, entry >>
          ELSE /\ entry' = e
               /\ pc' = "openvpn_query"
               /\ UNCHANGED i
    /\ UNCHANGED << fs0, argtype, openvpn_list, wireguard_list, fs, tree, last_server,
                    vpn_id_list, openvpn_ids, wireguard_ids, status, selvars >>

\* "for item in openvpn_list" (line 130), "for item in wireguard_list"
\* (line 181): whatever the query gave, the loop goes on to the next item
NextIndexStopOnNone(j, server_info, list) ==
    IF GotServer(server_info) THEN j + 1 ELSE Len(list) + 1
NextIndex(j, server_info, list) == j + 1

\* lines 142-169: query the service, update the node, collect its vpnid
UpdateOpenvpn ==
    /\ pc = "openvpn_query"
    /\ \E response \in OpenvpnResponses :
         LET item == openvpn_list[i]
             last_ip == LastIp(last_server)
             server_info == get_optimal_server(response, item.technology, last_ip)
         IN
         /\ trace' = Append(trace,
                Event("query", "openvpn", i, last_ip,
                      Outcome(response, item.technology, last_ip),
                      server_info.ip, server_info.public_key))
         /\ IF GotServer(server_info)
            THEN /\ last_server' = server_info
                 /\ tree' = ApplyOpenvpn(tree, entry, item, server_info)
                 /\ vpn_id_list' = CollectOpenvpn(tree, entry, vpn_id_list)
            ELSE UNCHANGED << last_server, tree, vpn_id_list >>
         /\ i' = NextIndex(i, server_info, openvpn_list)
    /\ entry' = NoEntry
    /\ pc' = "openvpn"
    /\ UNCHANGED << fs0, argtype, openvpn_list, wireguard_list, fs, openvpn_ids,
                    wireguard_ids, status, selvars >>

\* line 171 and lines 323-327
ReturnOpenvpn ==
    /\ pc = "openvpn"
    /\ i > Len(openvpn_list)
    /\ openvpn_ids' = vpn_id_list
    /\ IF argtype = "all"
       THEN EnterWireguard
       ELSE /\ pc' = "decide"
            /\ UNCHANGED << i, last_server, vpn_id_list, entry >>
    /\ UNCHANGED << fs0, argtype, openvpn_list, wireguard_list, fs, tree, wireguard_ids,
                    status, trace, selvars >>

\* lines 181-213
LocateWireguard ==
    /\ pc = "wireguard"
    /\ i <= Len(wireguard_list)
    /\ LET target_desc == wireguard_list[i].target
           e == FindWireguard(tree, target_desc)
           how == IF FindWireguardDirect(tree, target_desc) # NoEntry
                  THEN "direct" ELSE "scan"
       IN
       /\ trace' = Append(trace, Event("locate", "wireguard", i, how,
                                       IF e = NoEntry THEN "miss" ELSE "found", "", ""))
       /\ IF e = NoEntry
          THEN /\ i' = i + 1
               /\ UNCHANGED << pc, entry >>
          ELSE /\ entry' = e
               /\ pc' = "wireguard_query"
               /\ UNCHANGED i
    /\ UNCHANGED << fs0, argtype, openvpn_list, wireguard_list, fs, tree, last_server,
                    vpn_id_list, openvpn_ids, wireguard_ids, status, selvars >>

\* lines 215-251
UpdateWireguard ==
    /\ pc = "wireguard_query"
    /\ \E response \in WireguardResponses :
         LET last_ip == LastIp(last_server)
             server_info == get_optimal_server(response, "wireguard_udp", last_ip)
         IN
         /\ trace' = Append(trace,
                Event("query", "wireguard", i, last_ip,
                      Outcome(response, "wireguard_udp", last_ip),
                      server_info.ip, server_info.public_key))
         /\ IF GotServer(server_info)
            THEN /\ last_server' = server_info
                 /\ tree' = ApplyWireguard(tree, entry, server_info)
                 /\ vpn_id_list' = CollectWireguard(tree, entry, vpn_id_list)
            ELSE UNCHANGED << last_server, tree, vpn_id_list >>
         /\ i' = NextIndex(i, server_info, wireguard_list)
    /\ entry' = NoEntry
    /\ pc' = "wireguard"
    /\ UNCHANGED << fs0, argtype, openvpn_list, wireguard_list, fs, openvpn_ids,
                    wireguard_ids, status, selvars >>

\* line 253 and line 327
ReturnWireguard ==
    /\ pc = "wireguard"
    /\ i > Len(wireguard_list)
    /\ wireguard_ids' = vpn_id_list
    /\ pc' = "decide"
    /\ UNCHANGED << fs0, argtype, openvpn_list, wireguard_list, fs, tree, i, entry,
                    last_server, vpn_id_list, openvpn_ids, status, trace, selvars >>

\* line 330: "if not openvpn_ids and not wireguard_ids"
NothingMarkedEither(oids, wids) == oids = <<>> \/ wids = <<>>
NothingMarked(oids, wids) == oids = <<>> /\ wids = <<>>

\* lines 330-332
NothingToDo ==
    /\ pc = "decide"
    /\ NothingMarked(openvpn_ids, wireguard_ids)
    /\ pc' = "done"
    /\ status' = << 0 >>
    /\ UNCHANGED << fs0, argtype, openvpn_list, wireguard_list, fs, tree, i, entry,
                    last_server, vpn_id_list, openvpn_ids, wireguard_ids, trace,
                    selvars >>

\* lines 335-336
WriteConfig ==
    /\ pc = "decide"
    /\ ~NothingMarked(openvpn_ids, wireguard_ids)
    /\ Serializable(tree)
    /\ fs' = [fs EXCEPT ![config_path] = File(Serialize(tree))]
    /\ trace' = Append(trace, Event("write", "", 0, config_path, "written", "", ""))
    /\ pc' = "restart_openvpn"
    /\ UNCHANGED << fs0, argtype, openvpn_list, wireguard_list, tree, i, entry, last_server,
                    vpn_id_list, openvpn_ids, wireguard_ids, status, selvars >>

\* line 335 when a text of the tree is not a string: tree.write has opened
\* (truncated) the file and raises TypeError; nothing catches it
WriteRaises ==
    /\ pc = "decide"
    /\ ~NothingMarked(openvpn_ids, wireguard_ids)
    /\ ~Serializable(tree)
    /\ fs' = [fs EXCEPT ![config_path] = TruncatedFile]
    /\ trace' = Append(trace, Event("write", "", 0, config_path, "raised", "", ""))
    /\ pc' = "raised"
    /\ status' = << 1 >>
    /\ UNCHANGED << fs0, argtype, openvpn_list, wireguard_list, tree, i, entry, last_server,
                    vpn_id_list, openvpn_ids, wireguard_ids, selvars >>

\* restart_openvpn_services: one command and one pause per id
OpenvpnCommandsOnce(ids) ==
    IF ids = <<>> THEN <<>>
    ELSE << Event("system", "openvpn", 0, Head(ids), "", "", ""),
            Event("sleep", "openvpn", 0, "", "", "", "") >>
RECURSIVE OpenvpnCommands(_)
OpenvpnCommands(ids) ==
    IF ids = <<>> THEN <<>>
    ELSE << Event("system", "openvpn", 0, Head(ids), "", "", ""),
            Event("sleep", "openvpn", 0, "", "", "", "") >>
         \o OpenvpnCommands(Tail(ids))

\* restart_wireguard_services: one command for the whole service
WireguardCommands(ids) ==
    IF ids = <<>> THEN <<>>
    ELSE << Event("system", "wireguard", 0, "", "", "", "") >>

\* lines 339-340
RestartOpenvpnSwapped ==
    /\ pc = "restart_openvpn"
    /\ trace' = trace \o WireguardCommands(wireguard_ids) \o OpenvpnCommands(openvpn_ids)
    /\ pc' = "restart_wireguard"
    /\ UNCHANGED << fs0, argtype, openvpn_list, wireguard_list, fs, tree, i, entry,
                    last_server, vpn_id_list, openvpn_ids, wireguard_ids, status,
                    selvars >>
RestartOpenvpn ==
    /\ pc = "restart_openvpn"
    /\ trace' = trace \o OpenvpnCommands(openvpn_ids)
    /\ pc' = "restart_wireguard"
    /\ UNCHANGED << fs0, argtype, openvpn_list, wireguard_list, fs, tree, i, entry,
                    last_server, vpn_id_list, openvpn_ids, wireguard_ids, status,
                    selvars >>

\* lines 342-345
RestartWireguard ==
    /\ pc = "restart_wireguard"
    /\ trace' = trace \o WireguardCommands(wireguard_ids)
    /\ pc' = "done"
    /\ status' = << 0 >>
    /\ UNCHANGED << fs0, argtype, openvpn_list, wireguard_list, fs, tree, i, entry,
                    last_server, vpn_id_list, openvpn_ids, wireguard_ids, selvars >>

\* ------------------------------------------------------------------------
\* Initial states
\* ------------------------------------------------------------------------
NoCall == [response |-> FailedResponse, technology |-> "", exclude_ip |-> None]

InitRun(type, olist, wlist, live, backup) ==
    /\ pc = "start"
    /\ argtype = type
    /\ openvpn_list = olist
    /\ wireguard_list = wlist
    /\ fs = (config_path :> live) @@ (config_backup_path :> backup)
    /\ fs0 = fs
    /\ tree = EmptyTree
    /\ i = 0
    /\ entry = NoEntry
    /\ last_server = NoServer
    /\ vpn_id_list = <<>>
    /\ openvpn_ids = <<>>
    /\ wireguard_ids = <<>>
    /\ status = <<>>
    /\ trace = <<>>
    /\ sel_in = NoCall
    /\ sel_out = <<>>

ArgTypes == {"openvpn", "wireguard", "all"}

ShippedDocument(oshapes, wshapes) ==
    Document(ShippedOpenvpnList, oshapes, ShippedWireguardList, wshapes)

\* what an earlier run may have left at the backup path
StaleBackup == File(ShippedDocument(<< "bare", "absent" >>, << "bare" >>))
Backups == {NoFile, StaleBackup}

\* the shipped lists: no document; one technology in scope against every
\* shape of its nodes; both in scope against the shapes that decide whether
\* a node is found and whether it yields a restart key
InitShipped ==
    \/ \E type \in ArgTypes, backup \in Backups :
          InitRun(type, ShippedOpenvpnList, ShippedWireguardList, NoFile, backup)
    \/ \E oshapes \in [1..Len(ShippedOpenvpnList) -> OvpnShapes], backup \in Backups :
          InitRun("openvpn", ShippedOpenvpnList, ShippedWireguardList,
                  File(ShippedDocument(oshapes, << "full" >>)), backup)
    \/ \E wshapes \in [1..Len(ShippedWireguardList) -> WgShapes], backup \in Backups :
          InitRun("wireguard", ShippedOpenvpnList, ShippedWireguardList,
                  File(ShippedDocument(<< "full", "full" >>, wshapes)), backup)
    \/ \E oshapes \in [1..Len(ShippedOpenvpnList) -> {"absent", "full", "novpnid"}],
          wshapes \in [1..Len(ShippedWireguardList) -> {"absent", "full", "nouuid"}] :
          InitRun("all", ShippedOpenvpnList, ShippedWireguardList,
                  File(ShippedDocument(oshapes, wshapes)), NoFile)

\* lists of up to MaxDefs tunnels of one technology, each with its node or
\* without
InitLists ==
    \E n \in 0..MaxDefs :
       \/ \E oshapes \in [1..n -> {"absent", "full"}] :
            InitRun("openvpn", GenOpenvpnList(n), ShippedWireguardList,
                    File(Document(GenOpenvpnList(n), oshapes,
                                  ShippedWireguardList, << "full" >>)), NoFile)
       \/ \E wshapes \in [1..n -> {"absent", "full"}] :
            InitRun("wireguard", ShippedOpenvpnList, GenWireguardList(n),
                    File(Document(ShippedOpenvpnList, << "full", "full" >>,
                                  GenWireguardList(n), wshapes)), NoFile)

Init == InitShipped \/ InitLists

Next ==
    \/ BackupConfig
    \/ ConfigMissing
    \/ LoadConfig
    \/ LocateOpenvpn
    \/ UpdateOpenvpn
    \/ ReturnOpenvpn
    \/ LocateWireguard
    \/ UpdateWireguard
    \/ ReturnWireguard
    \/ NothingToDo
    \/ WriteConfig
    \/ WriteRaises
    \/ RestartOpenvpn
    \/ RestartWireguard

Spec == Init /\ [][Next]_vars

\* ------------------------------------------------------------------------
\* get_optimal_server on its own: every answer of up to Limit servers
\* ------------------------------------------------------------------------
\* the branch for the other technologies does not read "technologies"
SelServers(technology) ==
    { Server(st, t) : st \in StationValues,
                      t \in IF technology = "wireguard_udp"
                            THEN TechnologiesValues ELSE { <<>> } }
    \cup {BadServer}
SelResponses(technology) ==
    {FailedResponse} \cup { OkResponse(b) : b \in SeqsUpTo(SelServers(technology), Limit) }

InitSel ==
    /\ pc = "idle"
    /\ argtype = "openvpn"
    /\ openvpn_list = ShippedOpenvpnList
    /\ wireguard_list = ShippedWireguardList
    /\ fs = (config_path :> NoFile) @@ (config_backup_path :> NoFile)
    /\ fs0 = fs
    /\ tree = EmptyTree
    /\ i = 0
    /\ entry = NoEntry
    /\ last_server = NoServer
    /\ vpn_id_list = <<>>
    /\ openvpn_ids = <<>>
    /\ wireguard_ids = <<>>
    /\ status = <<>>
    /\ trace = <<>>
    /\ \E technology \in {"openvpn_udp", "wireguard_udp"} :
         \E response \in SelResponses(technology), exclude_ip \in StationValues :
            sel_in = [response |-> response, technology |-> technology,
                      exclude_ip |-> exclude_ip]
    /\ sel_out = <<>>

CallSelector ==
    /\ sel_out = <<>>
    /\ sel_out' = << get_optimal_server(sel_in.response, sel_in.technology,
                                        sel_in.exclude_ip) >>
    /\ UNCHANGED << runvars, sel_in >>

NextSel == CallSelector

SpecSel == InitSel /\ [][NextSel]_vars

\* ------------------------------------------------------------------------
\* Properties
\* ------------------------------------------------------------------------
Positions(e) == { k \in 1..Len(trace) : trace[k].ev = e }
HasEvent(e) == Positions(e) # {}
RunEnded == pc \in {"done", "raised"}
\* the positions of the queries of a technology that returned a descriptor
Updates(t) ==
    { k \in Positions("query") : trace[k].tech = t /\ trace[k].res = "ok" }
\* the step appends one query event
QueryStep == Len(trace') = Len(trace) + 1 /\ trace'[Len(trace')].ev = "query"
LastEvent == trace'[Len(trace')]

C2_BackupFirst ==
    /\ trace # <<>> =>
          /\ trace[1].ev = "copy"
          /\ trace[1].arg = config_path
          /\ trace[1].res = config_backup_path
    /\ Len(trace) >= 2 => trace[2].ev = "parse"
    /\ \A k \in Positions("parse") : trace[k].arg = config_backup_path /\ k = 2
    /\ \A k \in Positions("copy") : k = 1
    /\ HasEvent("copy") => fs[config_backup_path] = fs0[config_path]
    /\ (HasEvent("parse") /\ ~HasEvent("query"))
          => tree = Parse(fs[config_backup_path].doc)
    /\ \A k \in Positions("write") :
          /\ \E j \in Positions("copy") : j < k
          /\ \E j \in Positions("parse") : j < k

\* the live document has been overwritten with other content, over a stale
\* backup of an earlier run
C2_Witness ==
    /\ HasEvent("write")
    /\ fs0[config_backup_path].exists
    /\ fs[config_path].intact
    /\ fs[config_path] # fs0[config_path]
    /\ fs[config_backup_path] = fs0[config_path]

\* C3: when the live document does not exist the run does nothing but
\* return 1: no file is touched, nothing is located, queried, written or
\* restarted.
C3_MissingAborts ==
    ~fs0[config_path].exists =>
        /\ pc \in {"start", "done", "idle"}
        /\ trace = <<>>
        /\ fs = fs0
        /\ tree = EmptyTree
        /\ pc = "done" => status = << 1 >>

C3_Witness ==
    /\ pc = "done"
    /\ ~fs0[config_path].exists
    /\ fs[config_backup_path].exists
    /\ status = << 1 >>

\* the isolated call and its result
SelBody == sel_in.response.body
SelCalled == sel_out # <<>>
\* the positions of the answer whose station differs from the excluded one
SelCandidates == { k \in 1..Len(SelBody) : SelBody[k].station # sel_in.exclude_ip }
SelFirst == CHOOSE k \in SelCandidates : \A m \in SelCandidates : k <= m
\* an answer that parsed, all of whose servers are dicts with well-formed
\* technologies
SelWellFormed ==
    /\ ~sel_in.response.failed
    /\ \A k \in 1..Len(SelBody) :
          /\ SelBody[k].isdict
          /\ \A m \in 1..Len(SelBody[k].technologies) :
                SelBody[k].technologies[m].isdict

\* C4: for a well-formed answer get_optimal_server returns the descriptor
\* of the first server, in the order of the answer, whose station differs
\* from exclude_ip, and None when the answer is empty or every station
\* equals exclude_ip.
C4_FirstNotExcluded ==
    (SelCalled /\ SelWellFormed) =>
        IF SelCandidates = {}
        THEN sel_out[1].isNone
        ELSE /\ ~sel_out[1].isNone
             /\ sel_out[1].ip = SelBody[SelFirst].station
             /\ sel_out[1].public_key =
                   IF sel_in.technology = "wireguard_udp"
                   THEN ExtractPublicKey(SelBody[SelFirst].technologies)
                   ELSE ""

\* the first server is the excluded one and the second is taken
C4_Witness ==
    /\ SelCalled
    /\ SelWellFormed
    /\ Len(SelBody) = Limit
    /\ SelBody[1].station = sel_in.exclude_ip
    /\ sel_in.exclude_ip \in Stations
    /\ SelBody[2].station \in Stations \ {sel_in.exclude_ip}
    /\ sel_out[1] = ServerInfo(SelBody[2].station, "KEY2")

\* C5: a query that raised inside get_optimal_server yields None and the
\* run goes on: the step leaves the tree, the collected keys and
\* last_server as they were and moves to the next definition of the same
\* reconciler, with the run still going.
C5_FailureSkips ==
    [][ (QueryStep /\ LastEvent.res = "error") =>
            /\ LastEvent.ip = None
            /\ tree' = tree
            /\ vpn_id_list' = vpn_id_list
            /\ last_server' = last_server
            /\ i' = i + 1
            /\ pc' = LastEvent.tech
            /\ status' = <<>> ]_vars

\* a failed query for one definition, then the next definition is handled
C5_Witness ==
    \E k \in Positions("query") :
       /\ trace[k].res = "error"
       /\ k < Len(trace)
       /\ trace[k + 1].ev = "locate"
       /\ trace[k + 1].tech = trace[k].tech
       /\ trace[k + 1].idx = trace[k].idx + 1
       /\ trace[k + 1].res = "found"

\* C6: a descriptor that get_optimal_server returns has a non-empty address.
C6_AddressNonEmpty ==
    (SelCalled /\ ~sel_out[1].isNone) => sel_out[1].ip \notin {"", None}

\* C7: of two queries of one technology that returned a descriptor with no
\* such query between them, the later one's address differs from the
\* earlier one's.
C7_ConsecutiveDiffer ==
    \A t \in {"openvpn", "wireguard"} : \A j, k \in Updates(t) :
       (j < k /\ ~\E m \in Updates(t) : j < m /\ m < k) => trace[k].ip # trace[j].ip

\* two tunnels updated one after the other, the second from an answer that
\* offered the first one's address first
C7_Witness ==
    \E j, k \in Updates("wireguard") :
       /\ j < k
       /\ trace[j].ip \in Stations
       /\ trace[k].ip \in Stations
       /\ trace[k].arg = trace[j].ip

\* C8 as stated: no two updated tunnels of one technology get the same
\* address.
C8_PairwiseDistinct ==
    \A t \in {"openvpn", "wireguard"} : \A j, k \in Updates(t) :
       j < k => trace[k].ip # trace[j].ip

\* C8 as amended: two updated tunnels of one technology that got the same
\* address are separated by an updated tunnel that got another one.
C8_SameOnlyApart ==
    \A t \in {"openvpn", "wireguard"} : \A j, k \in Updates(t) :
       (j < k /\ trace[k].ip = trace[j].ip) =>
           \E m \in Updates(t) : j < m /\ m < k /\ trace[m].ip # trace[j].ip

\* the first and the third tunnel of a list share a relay
C8_Witness ==
    \E j, m, k \in Updates("openvpn") :
       /\ j < m /\ m < k
       /\ trace[j].ip \in Stations
       /\ trace[k].ip = trace[j].ip
       /\ trace[m].ip # trace[j].ip

\* C9: an update of a wireguard node from a descriptor whose public key is
\* empty leaves the node's pubkey as it was and sets the node's
\* serveraddress element to the descriptor's address.
C9_EmptyKeyKeepsPubkey ==
    [][ (QueryStep /\ pc = "wireguard_query" /\ LastEvent.res = "ok"
           /\ LastEvent.key = "") =>
            /\ Node(tree', entry).pubkey = Node(tree, entry).pubkey
            /\ Node(tree, entry).serveraddress # Absent =>
                  Node(tree', entry).serveraddress = LastEvent.ip ]_vars

\* a node that kept its stored key and got a new address
C9_Witness ==
    /\ HasEvent("query")
    /\ trace[Len(trace)].tech = "wireguard"
    /\ trace[Len(trace)].res = "ok"
    /\ trace[Len(trace)].key = ""
    /\ \E j \in 1..Len(tree.wg) :
          /\ tree.wg[j].pubkey = OldKey
          /\ tree.wg[j].serveraddress = trace[Len(trace)].ip
          /\ tree.wg[j].serveraddress \in Stations

\* C10: an update of a wireguard node without a uuid attribute sets its
\* serveraddress element, and its pubkey element when the key is not
\* empty, and appends nothing to the restart keys.
C10_NoUuidNoKey ==
    [][ (QueryStep /\ pc = "wireguard_query" /\ LastEvent.res = "ok"
           /\ Node(tree, entry).uuid = Absent) =>
            /\ vpn_id_list' = vpn_id_list
            /\ Node(tree, entry).serveraddress # Absent =>
                  Node(tree', entry).serveraddress = LastEvent.ip
            /\ (Node(tree, entry).pubkey # Absent /\ LastEvent.key # "") =>
                  Node(tree', entry).pubkey = LastEvent.key ]_vars

\* the reconciler returned no key for a node it gave a new address and key
C10_Witness ==
    /\ pc = "decide"
    /\ wireguard_ids = <<>>
    /\ \E j \in 1..Len(tree.wg) :
          /\ tree.wg[j].uuid = Absent
          /\ tree.wg[j].serveraddress \in Stations
          /\ tree.wg[j].pubkey = "KEY1"

\* the node a definition names, by the field that identifies it
OvpnMatches(k) ==
    { j \in 1..Len(tree.ovpn) : tree.ovpn[j].description = openvpn_list[k].target }
WgMatches(part, k) ==
    { j \in 1..Len(tree[part]) : tree[part][j].name = wireguard_list[k].target }
Least(S) == CHOOSE j \in S : \A m \in S : j <= m
OvpnNodeOf(k) == tree.ovpn[Least(OvpnMatches(k))]
WgNodeOf(k) ==
    IF WgMatches("wg", k) # {} THEN tree.wg[Least(WgMatches("wg", k))]
    ELSE tree.other[Least(WgMatches("other", k))]
\* the queries that returned a descriptor for a node that has its restart key
KeyedOpenvpn == { q \in Updates("openvpn") : OvpnNodeOf(trace[q].idx).vpnid # Absent }
KeyedWireguard == { q \in Updates("wireguard") : WgNodeOf(trace[q].idx).uuid # Absent }
Rank(S, q) == Cardinality({ p \in S : p <= q })
Written == \E k \in Positions("write") : trace[k].res = "written"
WritePos == CHOOSE k \in Positions("write") : TRUE

\* C11: a run that wrote the document and ended has issued, after the
\* write and in this order: for each key of openvpn_ids, in the order the
\* keys were collected (the order of the definitions), one openvpn restart
\* command with that key followed by one pause; then one wireguard restart
\* command if wireguard_ids is not empty; and nothing else.
C11_RestartCommands ==
    (pc = "done" /\ Written) =>
        LET w == WritePos
            n == Len(openvpn_ids)
        IN
        /\ n = Cardinality(KeyedOpenvpn)
        /\ \A q \in KeyedOpenvpn :
              openvpn_ids[Rank(KeyedOpenvpn, q)] = OvpnNodeOf(trace[q].idx).vpnid
        /\ Len(wireguard_ids) = Cardinality(KeyedWireguard)
        /\ Len(trace) = w + 2 * n + (IF wireguard_ids = <<>> THEN 0 ELSE 1)
        /\ \A k \in 1..n :
              /\ trace[w + 2 * k - 1].ev = "system"
              /\ trace[w + 2 * k - 1].tech = "openvpn"
              /\ trace[w + 2 * k - 1].arg = openvpn_ids[k]
              /\ trace[w + 2 * k].ev = "sleep"
        /\ wireguard_ids # <<>> =>
              /\ trace[Len(trace)].ev = "system"
              /\ trace[Len(trace)].tech = "wireguard"

\* two openvpn tunnels restarted one after the other
C11_Witness ==
    /\ pc = "done"
    /\ Written
    /\ openvpn_ids = << "1", "2" >>
    /\ Cardinality(Positions("system")) = 2
    /\ Cardinality(Positions("sleep")) = 2

\* the tree as the run loaded it
Loaded == Parse(fs0[config_path].doc)
Parts == {"ovpn", "wg", "other"}
FieldsOf(part) ==
    IF part = "ovpn" THEN {"server_addr", "server_port"} ELSE {"serveraddress", "pubkey"}
\* the nodes of which the run has set a field (every value the run sets
\* differs from the one the document held)
SetNodes ==
    UNION { { Entry(p, j) : j \in { m \in 1..Len(tree[p]) :
                                      \E f \in FieldsOf(p) : tree[p][m][f] # Loaded[p][m][f] } }
            : p \in Parts }

\* C12 as stated: a run that executed the write has set a field of a node.
C12_WriteOnlyIfSet ==
    HasEvent("write") => SetNodes # {}

\* C12 as amended: a run that executed the write got a descriptor for a
\* located node that has its restart key, and has set that node's address
\* field to the descriptor's address if the node has the element.
C12_WriteOnlyIfKeyed ==
    HasEvent("write") =>
        \/ \E q \in KeyedOpenvpn :
              LET n == OvpnNodeOf(trace[q].idx) IN
              n.server_addr # Absent => n.server_addr = trace[q].ip
        \/ \E q \in KeyedWireguard :
              LET n == WgNodeOf(trace[q].idx) IN
              n.serveraddress # Absent => n.serveraddress = trace[q].ip

\* the document is written although no field of any node was set
C12_Witness ==
    /\ Written
    /\ SetNodes = {}
    /\ KeyedOpenvpn # {}

\* C13: a run that found the live document ends with status 0.
C13_OnlyMissingFails ==
    (RunEnded /\ fs0[config_path].exists) => status = << 0 >>

\* the three outcomes of a run
FatalAbort ==
    /\ status = << 1 >>
    /\ ~fs0[config_path].exists
    /\ trace = <<>>
NothingDone ==
    /\ status = << 0 >>
    /\ ~HasEvent("write")
    /\ ~HasEvent("system")
Completed ==
    /\ status = << 0 >>
    /\ Written
    /\ fs[config_path] = File(Serialize(tree))

\* C14: a run that has not ended can take a step, and a run that has ended
\* ended as a fatal abort, with nothing to do, or completed after the write
\* and the restarts.
C14_ThreeOutcomes ==
    /\ (pc \notin {"done", "raised", "idle"}) => ENABLED Next
    /\ RunEnded => (FatalAbort \/ NothingDone \/ Completed)

\* C15: the exclude value of every query is the address of the latest
\* earlier query of the same technology that returned a descriptor, and
\* None when there is none: misses, failed and empty answers and the
\* queries of the other technology do not change it.
C15_ExcludeIsLastAddress ==
    \A k \in Positions("query") :
       LET earlier == { j \in Updates(trace[k].tech) : j < k } IN
       trace[k].arg = IF earlier = {} THEN None
                      ELSE trace[CHOOSE j \in earlier : \A m \in earlier : m <= j].ip

\* with both technologies in scope, the first wireguard query excludes
\* nothing although the openvpn tunnel before it got an address
C15_Witness ==
    /\ argtype = "all"
    /\ \E j \in Updates("openvpn"), k \in Positions("query") :
          /\ trace[j].ip \in Stations
          /\ trace[k].tech = "wireguard"
          /\ trace[k].arg = None
          /\ trace[k].res = "ok"

\* the step appends one locate event
LocateStep == Len(trace') = Len(trace) + 1 /\ trace'[Len(trace')].ev = "locate"
\* the document holds a node for the k-th definition of the technology
HasNodeFor(t, k) ==
    IF t = "openvpn" THEN OvpnMatches(k) # {}
    ELSE WgMatches("wg", k) \cup WgMatches("other", k) # {}

\* C16: locating a definition whose node the document does not hold is a
\* miss that changes neither the tree, the keys nor last_server and moves
\* to the next definition; and every query directly follows the successful
\* location of the node of the same definition.
C16_MissSkipsQuery ==
    [][ /\ (LocateStep /\ ~HasNodeFor(LastEvent.tech, LastEvent.idx)) =>
              /\ LastEvent.res = "miss"
              /\ tree' = tree
              /\ vpn_id_list' = vpn_id_list
              /\ last_server' = last_server
              /\ i' = i + 1
              /\ pc' = pc
        /\ QueryStep =>
              /\ trace # <<>>
              /\ trace[Len(trace)].ev = "locate"
              /\ trace[Len(trace)].tech = LastEvent.tech
              /\ trace[Len(trace)].idx = LastEvent.idx
              /\ trace[Len(trace)].res = "found"
              /\ HasNodeFor(LastEvent.tech, LastEvent.idx) ]_vars

\* a missed definition is followed by the location and the query of the
\* next one
C16_Witness ==
    \E k \in Positions("locate") :
       /\ trace[k].res = "miss"
       /\ k + 2 <= Len(trace)
       /\ trace[k + 1].ev = "locate"
       /\ trace[k + 1].tech = trace[k].tech
       /\ trace[k + 1].idx = trace[k].idx + 1
       /\ trace[k + 2].ev = "query"
       /\ trace[k + 2].idx = trace[k].idx + 1

\* the technology whose reconciler handles the nodes of a part of the tree
TechOf(part) == IF part = "ovpn" THEN "openvpn" ELSE "wireguard"
\* the node of the tree that the k-th definition of the technology names
LocatedFor(t, k) ==
    IF t = "openvpn" THEN Entry("ovpn", Least(OvpnMatches(k)))
    ELSE IF WgMatches("wg", k) # {} THEN Entry("wg", Least(WgMatches("wg", k)))
    ELSE Entry("other", Least(WgMatches("other", k)))
\* the fields a reconciler never sets
KeptFields(part) ==
    IF part = "ovpn" THEN {"description", "vpnid"} ELSE {"name", "uuid"}

\* C17: the tree keeps its nodes, and a node differs from the loaded one
\* only in server_addr and server_port (openvpn) or serveraddress and
\* pubkey (wireguard), and only if a query for the definition that names
\* it returned a descriptor; the nodes of a technology that is not in
\* scope are as loaded.
C17_Frame ==
    IF ~HasEvent("parse") THEN tree = EmptyTree
    ELSE
    /\ \A p \in Parts :
          /\ Len(tree[p]) = Len(Loaded[p])
          /\ \A j \in 1..Len(tree[p]) :
                /\ \A f \in KeptFields(p) : tree[p][j][f] = Loaded[p][j][f]
                /\ tree[p][j] # Loaded[p][j] =>
                      \E q \in Updates(TechOf(p)) :
                         LocatedFor(TechOf(p), trace[q].idx) = Entry(p, j)
    /\ argtype = "openvpn" => (tree.wg = Loaded.wg /\ tree.other = Loaded.other)
    /\ argtype = "wireguard" => tree.ovpn = Loaded.ovpn

\* one openvpn node got a new address while the located node of the other
\* definition, whose query returned nothing, is as loaded
C17_Witness ==
    \E q \in Updates("openvpn"), m \in Positions("query") :
       /\ trace[m].tech = "openvpn"
       /\ trace[m].res # "ok"
       /\ LET e == LocatedFor("openvpn", trace[q].idx)
              u == LocatedFor("openvpn", trace[m].idx) IN
          /\ tree.ovpn[e.idx].server_addr = trace[q].ip
          /\ tree.ovpn[e.idx] # Loaded.ovpn[e.idx]
          /\ tree.ovpn[u.idx] = Loaded.ovpn[u.idx]

\* C18: a wireguard definition is given the first node at the direct path
\* whose name is its target, whatever nodes of that name lie elsewhere;
\* the scan is used only when the direct path has none, and gives the
\* first node of that name, or nothing when there is none. An openvpn
\* definition is given the first node at the direct path or nothing.
C18_Locator ==
    /\ pc = "wireguard_query" =>
          /\ HasNodeFor("wireguard", i)
          /\ entry = LocatedFor("wireguard", i)
    /\ pc = "openvpn_query" =>
          /\ OvpnMatches(i) # {}
          /\ entry = Entry("ovpn", Least(OvpnMatches(i)))
    /\ \A q \in Positions("locate") :
          IF trace[q].tech = "wireguard"
          THEN /\ trace[q].arg = "direct" <=> WgMatches("wg", trace[q].idx) # {}
               /\ trace[q].arg = "scan" <=> WgMatches("wg", trace[q].idx) = {}
               /\ trace[q].res = "miss" <=>
                     (WgMatches("wg", trace[q].idx) = {}
                        /\ WgMatches("other", trace[q].idx) = {})
          ELSE /\ trace[q].arg = "direct"
               /\ trace[q].res = "miss" <=> OvpnMatches(trace[q].idx) = {}

\* the direct match was taken although a node of that name lies elsewhere
C18_Witness ==
    /\ pc = "wireguard_query"
    /\ entry.part = "wg"
    /\ WgMatches("other", i) # {}
    /\ trace[Len(trace)].arg = "direct"

\* C19: every restart command comes after the write of the live document,
\* which then holds the serialized tree; every openvpn restart command
\* comes before the wireguard restart command; a run without a completed
\* write issues no restart command.
C19_RestartOrder ==
    /\ \A s \in Positions("system") :
          /\ \E w \in Positions("write") : w < s /\ trace[w].res = "written"
          /\ fs[config_path] = File(Serialize(tree))
    /\ \A a, b \in Positions("system") :
          (trace[a].tech = "openvpn" /\ trace[b].tech = "wireguard") => a < b
    /\ ~Written => Positions("system") = {}

\* a run that wrote the document and restarted tunnels of both technologies
C19_Witness ==
    /\ pc = "done"
    /\ Written
    /\ \E a, b \in Positions("system") :
          trace[a].tech = "openvpn" /\ trace[b].tech = "wireguard"

\* the query events of a technology
Queries(t) == { q \in Positions("query") : trace[q].tech = t }
\* the number of definitions of a technology the run is through with
Handled(t) ==
    IF t = "openvpn"
    THEN IF pc \in {"openvpn", "openvpn_query"} THEN i - 1
         ELSE IF HasEvent("parse") /\ argtype \in {"openvpn", "all"}
              THEN Len(openvpn_list) ELSE 0
    ELSE IF pc \in {"wireguard", "wireguard_query"} THEN i - 1
         ELSE IF HasEvent("parse") /\ argtype \in {"wireguard", "all"}
                 /\ pc \notin {"openvpn", "openvpn_query"}
              THEN Len(wireguard_list) ELSE 0

\* C20: no definition is queried twice, and the definitions queried are
\* exactly those the run is through with whose node was located, whatever
\* the queries for earlier definitions returned; when a reconciler has
\* returned, the number of its queries is the number of its definitions
\* whose node was located.
C20_NoRetry ==
    \A t \in {"openvpn", "wireguard"} :
       /\ \A p, q \in Queries(t) : trace[p].idx = trace[q].idx => p = q
       /\ { trace[q].idx : q \in Queries(t) }
             = { k \in 1..Handled(t) : HasNodeFor(t, k) }
       /\ Cardinality(Queries(t))
             = Cardinality({ k \in 1..Handled(t) : HasNodeFor(t, k) })

\* a finished run whose first query gave no descriptor and whose second
\* definition was queried all the same
C20_Witness ==
    /\ RunEnded
    /\ \E p, q \in Positions("query") :
          /\ trace[p].tech = trace[q].tech
          /\ trace[p].idx = 1
          /\ trace[p].res # "ok"
          /\ trace[q].idx = 2

====
